---------------------------- MODULE Spec2Model ----------------------------
(***************************************************************************)
(* A model of server.js, the RAG PDF chatbot: the paragraph chunker, the   *)
(* bag-of-words vectorizer, the cosine ranker, and the two request         *)
(* handlers (/upload, /ask) working on the in-memory documentStore.        *)
(*                                                                         *)
(* A JavaScript string is a sequence of one-character strings.  A number   *)
(* produced by cosineSimilarity is either NaN or a finite value kept as    *)
(* the exact pair (dot product, product of the squared norms).             *)
(***************************************************************************)
EXTENDS Integers, Sequences, FiniteSets, Bags

VARIABLES
    documentStore,  \* Map docId -> {chunks, vocabulary, pages, totalChunks}
    clock,          \* the value Date.now() returns
    handlers,       \* the request handlers in flight or just answered
    ckText, ckSize, ckOverlap,        \* chunkText: its three arguments
    ckParas, ckPos,                   \* chunkText: paragraphs, loop position
    ckCur, ckChunks, ckPc,            \* chunkText: currentChunk, chunks, pc
    rkChunks, rkQuery, rkScored, rkTop, rkPc   \* the ranking of /ask alone

serverVars == <<documentStore, clock, handlers>>
chunkVars == <<ckText, ckSize, ckOverlap, ckParas, ckPos, ckCur, ckChunks, ckPc>>
rankVars == <<rkChunks, rkQuery, rkScored, rkTop, rkPc>>
vars == <<serverVars, chunkVars, rankVars>>

-----------------------------------------------------------------------------
(* Bounds of the model.                                                    *)

MaxClock == 1       \* Date.now() runs from 0 to MaxClock
MaxHandlers == 2    \* requests in flight or answered and not yet released
MaxTextLen == 6     \* longest text handed to the chunker on its own
MaxChunkSize == 3   \* largest chunkSize handed to the chunker on its own
MaxOverlap == 10    \* largest overlap handed to the chunker on its own
MaxRankChunks == 4  \* most chunks handed to the ranking on its own
MaxRankDim == 2     \* longest vocabulary handed to the ranking on its own
MaxCount == 2       \* largest term count of a chunk handed to the ranking
MaxQueryCount == 1  \* largest term count of a question handed to the ranking

-----------------------------------------------------------------------------
(* JavaScript strings and arrays.                                          *)

NL == "\n"
SP == " "
TAB == "\t"

Min(a, b) == IF a < b THEN a ELSE b
Max(a, b) == IF a > b THEN a ELSE b

\* The elements of a set S of integers within lo..hi, in ascending order.
RECURSIVE SortedIn(_, _, _)
SortedIn(S, lo, hi) ==
    IF lo > hi THEN <<>>
    ELSE IF lo = hi THEN (IF lo \in S THEN <<lo>> ELSE <<>>)
    ELSE LET mid == (lo + hi) \div 2
         IN  SortedIn(S, lo, mid) \o SortedIn(S, mid + 1, hi)

\* The elements of a set of positions of s in ascending order.
SortedSeq(S, s) == SortedIn(S, 1, Len(s))

\* String.prototype.trim: whitespace removed at both ends.
IsSpace(c) == c \in {SP, NL, TAB}

Trim(s) ==
    LET keep == {i \in 1..Len(s) : ~IsSpace(s[i])}
    IN  IF keep = {} THEN <<>>
        ELSE LET a == CHOOSE i \in keep : \A j \in keep : i <= j
                 b == CHOOSE i \in keep : \A j \in keep : i >= j
             IN  SubSeq(s, a, b)

\* The pieces of s between the separators, each a pair <<first, last>> of
\* positions; the pieces before the first and after the last are kept, empty
\* or not, as String.prototype.split keeps them.
Pieces(s, seps) ==
    LET n == Len(seps)
    IN  [k \in 1..(n + 1) |->
            SubSeq(s,
                   IF k = 1 THEN 1 ELSE seps[k - 1][2] + 1,
                   IF k = n + 1 THEN Len(s) ELSE seps[k][1] - 1)]

\* text.split(/\n\n+/): a separator is a maximal run of two or more newlines.
IsNL(s, i) == i \in 1..Len(s) /\ s[i] = NL

SplitParagraphs(text) ==
    LET starts == {i \in 1..Len(text) :
                      IsNL(text, i) /\ ~IsNL(text, i - 1) /\ IsNL(text, i + 1)}
        runEnd(i) == CHOOSE j \in i..Len(text) :
                        (\A k \in i..j : text[k] = NL) /\ ~IsNL(text, j + 1)
        ord == SortedSeq(starts, text)
    IN  Pieces(text, [k \in 1..Len(ord) |-> <<ord[k], runEnd(ord[k])>>])

\* s.split(' '): every single space separates.
SplitSpace(s) ==
    LET ord == SortedSeq({i \in 1..Len(s) : s[i] = SP}, s)
    IN  Pieces(s, [k \in 1..Len(ord) |-> <<ord[k], ord[k]>>])

\* Array.prototype.slice(start) with one argument: a negative start counts
\* from the end, and -0 is 0.
SliceFrom(arr, start) ==
    LET len == Len(arr)
        from == IF start < 0 THEN Max(len + start, 0) ELSE Min(start, len)
    IN  SubSeq(arr, from + 1, len)

\* Array.prototype.join(sep) on an array of strings.
RECURSIVE Join(_, _)
Join(arr, sep) ==
    IF arr = <<>> THEN <<>>
    ELSE IF Len(arr) = 1 THEN arr[1]
    ELSE Join(SubSeq(arr, 1, Len(arr) - 1), sep) \o sep \o arr[Len(arr)]

-----------------------------------------------------------------------------
(* chunkText(text, chunkSize, overlap).                                    *)

\* chunks.push({id: chunkIndex++, text: currentChunk.trim()}): chunkIndex
\* counts the pushes, so it is the length of chunks.
PushChunk(chunks, currentChunk) ==
    Append(chunks, [id |-> Len(chunks), text |-> Trim(currentChunk)])

\* The condition of the if in the loop.
MustSplit(currentChunk, para, chunkSize) ==
    Len(currentChunk \o para) > chunkSize /\ Len(currentChunk) > 0

\* The overlap kept for the next chunk: words.slice(-Math.floor(overlap / 5)).
OverlapWords(currentChunk, overlap) ==
    SliceFrom(SplitSpace(currentChunk), -(overlap \div 5))

\* One iteration of the for loop, on st = [chunks, currentChunk].
LoopBody(st, para, chunkSize, overlap) ==
    IF MustSplit(st.currentChunk, para, chunkSize)
    THEN [chunks |-> PushChunk(st.chunks, st.currentChunk),
          currentChunk |->
              Join(OverlapWords(st.currentChunk, overlap), <<SP>>)
                  \o <<SP>> \o para]
    ELSE [chunks |-> st.chunks,
          currentChunk |->
              st.currentChunk
                  \o (IF st.currentChunk # <<>> THEN <<NL, NL>> ELSE <<>>)
                  \o para]

\* The flush after the loop.
Flush(st) ==
    IF Trim(st.currentChunk) # <<>>
    THEN PushChunk(st.chunks, st.currentChunk)
    ELSE st.chunks

RECURSIVE ChunkLoop(_, _, _, _, _)
ChunkLoop(st, paragraphs, k, chunkSize, overlap) ==
    IF k > Len(paragraphs) THEN st
    ELSE ChunkLoop(LoopBody(st, paragraphs[k], chunkSize, overlap),
                   paragraphs, k + 1, chunkSize, overlap)

chunkText(text, chunkSize, overlap) ==
    Flush(ChunkLoop([chunks |-> <<>>, currentChunk |-> <<>>],
                    SplitParagraphs(text), 1, chunkSize, overlap))

-----------------------------------------------------------------------------
(* simpleEmbedding and the vocabulary of /upload.                          *)

Letters ==
    <<"a", "b", "c", "d", "e", "f", "g", "h", "i", "j", "k", "l", "m",
      "n", "o", "p", "q", "r", "s", "t", "u", "v", "w", "x", "y", "z">>
Capitals ==
    <<"A", "B", "C", "D", "E", "F", "G", "H", "I", "J", "K", "L", "M",
      "N", "O", "P", "Q", "R", "S", "T", "U", "V", "W", "X", "Y", "Z">>
Digits == <<"0", "1", "2", "3", "4", "5", "6", "7", "8", "9">>

Range(f) == {f[i] : i \in DOMAIN f}

\* String.prototype.toLowerCase, character by character.
LowerChar(c) ==
    IF c \in Range(Capitals)
    THEN Letters[CHOOSE i \in DOMAIN Capitals : Capitals[i] = c]
    ELSE c

toLowerCase(s) == [i \in 1..Len(s) |-> LowerChar(s[i])]

\* \w of a regular expression.
WordChars == Range(Letters) \cup Range(Capitals) \cup Range(Digits) \cup {"_"}
IsWordChar(c) == c \in WordChars

\* s.match(/\b\w+\b/g) || []: the maximal runs of word characters, in order.
MatchWords(s) ==
    LET isW(i) == i \in 1..Len(s) /\ IsWordChar(s[i])
        starts == SortedSeq({i \in 1..Len(s) : isW(i) /\ ~isW(i - 1)}, s)
        ends == SortedSeq({i \in 1..Len(s) : isW(i) /\ ~isW(i + 1)}, s)
    IN  [k \in 1..Len(starts) |-> SubSeq(s, starts[k], ends[k])]

\* [...new Set(words)]: the distinct words in the order of first occurrence.
Distinct(words) ==
    LET first == {i \in 1..Len(words) : \A j \in 1..(i - 1) : words[j] # words[i]}
        ord == SortedSeq(first, words)
    IN  [k \in 1..Len(ord) |-> words[ord[k]]]

\* simpleEmbedding(text, vocabulary).vector, both call sites passing a
\* vocabulary: wordCounts[word] || 0 for each word of the vocabulary.  (The
\* words of the model are none of the property names of Object.prototype.)
simpleEmbedding(text, vocabulary) ==
    LET words == MatchWords(toLowerCase(text))
        wordCounts(word) == Cardinality({i \in 1..Len(words) : words[i] = word})
    IN  [idx \in 1..Len(vocabulary) |-> wordCounts(vocabulary[idx])]

\* chunks.flatMap(chunk => chunk.text.toLowerCase().match(/\b\w+\b/g) || [])
RECURSIVE FlatMapWords(_, _)
FlatMapWords(chunks, k) ==
    IF k > Len(chunks) THEN <<>>
    ELSE MatchWords(toLowerCase(chunks[k].text)) \o FlatMapWords(chunks, k + 1)

\* [...new Set(allWords)].slice(0, 500)
VocabularyLimit == 500

\* A faulty variant: the vocabulary without its cap.
BuildVocabularyUncapped(chunks) == Distinct(FlatMapWords(chunks, 1))

BuildVocabulary(chunks) ==
    LET all == Distinct(FlatMapWords(chunks, 1))
    IN  SubSeq(all, 1, Min(VocabularyLimit, Len(all)))

-----------------------------------------------------------------------------
(* cosineSimilarity and the ranking of /ask.                               *)

\* A similarity: NaN, or the finite value num / sqrt(den), num >= 0, den > 0.
NaN == [nan |-> TRUE, num |-> 0, den |-> 1]

\* a.reduce((sum, val, i) => sum + val * b[i], 0), summed by halves.
RECURSIVE DotRange(_, _, _, _)
DotRange(a, b, lo, hi) ==
    IF lo > hi THEN 0
    ELSE IF lo = hi THEN a[lo] * b[lo]
    ELSE LET mid == (lo + hi) \div 2
         IN  DotRange(a, b, lo, mid) + DotRange(a, b, mid + 1, hi)

Dot(a, b) == DotRange(a, b, 1, Len(a))

\* dotProduct / (magA * magB): 0 / 0 is NaN in IEEE arithmetic, and the dot
\* product of two count vectors is 0 when either has norm 0.
cosineSimilarity(a, b) ==
    LET dotProduct == Dot(a, b)
        magA2 == Dot(a, a)
        magB2 == Dot(b, b)
    IN  IF magA2 * magB2 = 0 THEN NaN
        ELSE [nan |-> FALSE, num |-> dotProduct, den |-> magA2 * magB2]

\* x < y on similarities as IEEE compares them: false when either is NaN.
SimLess(x, y) == ~x.nan /\ ~y.nan /\ x.num * x.num * y.den < y.num * y.num * x.den
SimEqual(x, y) == ~x.nan /\ ~y.nan /\ x.num * x.num * y.den = y.num * y.num * x.den

\* doc.chunks.map(chunk => ({...chunk, similarity: cosineSimilarity(...)}))
ScoreChunks(chunks, questionVector) ==
    [k \in 1..Len(chunks) |->
        [f \in DOMAIN chunks[k] \cup {"similarity"} |->
            IF f = "similarity"
            THEN cosineSimilarity(questionVector, chunks[k].embedding)
            ELSE chunks[k][f]]]

\* The comparator (a, b) => b.similarity - a.similarity as sort reads it:
\* negative (a first), positive (b first), and NaN is taken as +0.
Comparator(a, b) ==
    IF SimLess(b.similarity, a.similarity) THEN -1
    ELSE IF SimLess(a.similarity, b.similarity) THEN 1
    ELSE 0

\* ECMAScript's "consistent comparator" for the elements of arr.
ConsistentComparator(arr) ==
    \A i, j, k \in 1..Len(arr) :
        LET c(x, y) == Comparator(arr[x], arr[y])
        IN  /\ (c(i, j) = 0 /\ c(j, k) = 0) => c(i, k) = 0
            /\ (c(i, j) < 0 /\ c(j, k) < 0) => c(i, k) < 0
            /\ (c(i, j) > 0 /\ c(j, k) > 0) => c(i, k) > 0
            /\ (c(i, j) < 0) <=> (c(j, i) > 0)

IndexPermutations(n) ==
    {p \in [1..n -> 1..n] : \A i, j \in 1..n : p[i] = p[j] => i = j}

\* The stable sort of arr by the comparator, as a permutation of its indices.
StableOrder(arr) ==
    LET before(j, i) ==
            \/ Comparator(arr[j], arr[i]) < 0
            \/ Comparator(arr[j], arr[i]) = 0 /\ j < i
        place(i) == 1 + Cardinality({j \in 1..Len(arr) : j # i /\ before(j, i)})
    IN  [k \in 1..Len(arr) |-> CHOOSE i \in 1..Len(arr) : place(i) = k]

\* Array.prototype.sort: stable under a consistent comparator, and an
\* implementation-defined order of the same elements otherwise.
SortOutcomes(arr) ==
    IF ConsistentComparator(arr)
    THEN {[k \in 1..Len(arr) |-> arr[StableOrder(arr)[k]]]}
    ELSE {[k \in 1..Len(arr) |-> arr[p[k]]] : p \in IndexPermutations(Len(arr))}

\* .slice(0, 3)
TopK == 3

SliceTop(sorted) == SubSeq(sorted, 1, Min(TopK, Len(sorted)))

\* The values topChunks can take.
TopChunks(chunks, questionVector) ==
    {SliceTop(s) : s \in SortOutcomes(ScoreChunks(chunks, questionVector))}

-----------------------------------------------------------------------------
(* The files and questions the requests of the model carry.                *)

\* The i-th two-letter word: aa, ab, ..., az, ba, ...
Word(i) == <<Letters[((i - 1) \div 26) + 1], Letters[((i - 1) % 26) + 1]>>

\* The words a..b, a single space between two of them.
WordsText(a, b) ==
    [k \in 1..(3 * (b - a + 1) - 1) |->
        IF k % 3 = 0 THEN SP ELSE Word(a + ((k - 1) \div 3))[((k - 1) % 3) + 1]]

\* A text with no word in it: it chunks to zero segments.
BlankText == <<SP, NL, NL, TAB>>

\* Four paragraphs of 600 + 40 distinct words: four chunks, more words than
\* the vocabulary keeps, and a last chunk with no word of the vocabulary.
LongText ==
    WordsText(1, 200) \o <<NL, NL>> \o WordsText(201, 400) \o <<NL, NL>>
        \o WordsText(401, 600) \o <<NL, NL>> \o WordsText(601, 640)

\* "Cats are mammals.\n\nDogs are mammals too.": one chunk.
ShortText ==
    <<"C", "a", "t", "s", SP, "a", "r", "e", SP, "m", "a", "m", "m", "a",
      "l", "s", ".", NL, NL, "D", "o", "g", "s", SP, "a", "r", "e", SP, "m",
      "a", "m", "m", "a", "l", "s", SP, "t", "o", "o", ".">>

\* req.file: the uploads of the model, by name.
Files == {"blank.pdf", "short.pdf", "long.pdf", "corrupt.pdf"}

\* pdfParse(req.file.buffer): a text and a page count, or an error.
pdfParse(file) ==
    CASE file = "blank.pdf" -> [ok |-> TRUE, text |-> BlankText, numpages |-> 1]
      [] file = "short.pdf" -> [ok |-> TRUE, text |-> ShortText, numpages |-> 1]
      [] file = "long.pdf" -> [ok |-> TRUE, text |-> LongText, numpages |-> 2]
      [] OTHER -> [ok |-> FALSE]

\* req.body.question: "Are ab mammals?"; the empty string is also what a
\* missing one counts as.
Question ==
    <<"A", "r", "e", SP, "a", "b", SP, "m", "a", "m", "m", "a", "l", "s",
      "?">>
Questions == {<<>>, Question}

-----------------------------------------------------------------------------
(* POST /upload.                                                           *)

\* chunkText(text, 800, 150)
UploadChunkSize == 800
UploadOverlap == 150

\* What the handler stores: the chunks with their embeddings, the vocabulary
\* of all chunks, the page count and the number of chunks.
BuildRecord(pdfData) ==
    LET chunks == chunkText(pdfData.text, UploadChunkSize, UploadOverlap)
        vocabulary == BuildVocabulary(chunks)
        chunksWithEmbeddings ==
            [k \in 1..Len(chunks) |->
                [id |-> chunks[k].id, text |-> chunks[k].text,
                 embedding |-> simpleEmbedding(chunks[k].text, vocabulary)]]
    IN  [chunks |-> chunksWithEmbeddings,
         vocabulary |-> vocabulary,
         pages |-> pdfData.numpages,
         totalChunks |-> Len(chunks)]

\* BuildRecord on every file pdfParse reads, evaluated once.
ParsedFiles == {f \in Files : pdfParse(f).ok}
RecordTable == [f \in ParsedFiles |-> BuildRecord(pdfParse(f))]

\* Number.prototype.toString of a non-negative integer.
RECURSIVE NumberToString(_)
NumberToString(n) ==
    IF n < 10 THEN <<Digits[n + 1]>>
    ELSE NumberToString(n \div 10) \o <<Digits[(n % 10) + 1]>>

\* const docId = Date.now().toString()
NewDocId(now) == NumberToString(now)

\* documentStore.set(docId, record)
MapSet(map, key, value) ==
    [k \in DOMAIN map \cup {key} |-> IF k = key THEN value ELSE map[k]]

Replace(bag, old, new) == (bag (-) SetToBag({old})) (+) SetToBag({new})

\* if (!req.file) return res.status(400)
UploadNoFile ==
    /\ BagCardinality(handlers) < MaxHandlers
    /\ handlers' = handlers (+) SetToBag({[op |-> "upload", pc |-> "done",
                                           status |-> 400]})
    /\ UNCHANGED <<documentStore, clock, chunkVars, rankVars>>

\* The handler up to await pdfParse(req.file.buffer).
UploadStart(file) ==
    /\ BagCardinality(handlers) < MaxHandlers
    /\ handlers' = handlers (+) SetToBag({[op |-> "upload", pc |-> "parsing",
                                           file |-> file]})
    /\ UNCHANGED <<documentStore, clock, chunkVars, rankVars>>

\* A faulty variant: a handler that registers a record although the text
\* could not be extracted.
UploadParseErrorStores(r) ==
    /\ r.op = "upload" /\ r.pc = "parsing" /\ ~pdfParse(r.file).ok
    /\ documentStore' = MapSet(documentStore, NewDocId(clock),
                               [chunks |-> <<>>, vocabulary |-> <<>>])
    /\ handlers' = Replace(handlers, r,
                       [op |-> "upload", pc |-> "done", status |-> 500,
                        file |-> r.file])
    /\ UNCHANGED <<clock, chunkVars, rankVars>>

\* pdfParse rejects: the catch block answers 500.
UploadParseError(r) ==
    /\ r.op = "upload" /\ r.pc = "parsing" /\ ~pdfParse(r.file).ok
    /\ handlers' = Replace(handlers, r,
                       [op |-> "upload", pc |-> "done", status |-> 500,
                        file |-> r.file])
    /\ UNCHANGED <<documentStore, clock, chunkVars, rankVars>>

\* pdfParse resolves: chunk, embed, store under Date.now().toString(), answer.
UploadFinish(r) ==
    /\ r.op = "upload" /\ r.pc = "parsing" /\ pdfParse(r.file).ok
    /\ LET record == RecordTable[r.file]
           docId == NewDocId(clock)
       IN  /\ documentStore' = MapSet(documentStore, docId, record)
           /\ handlers' = Replace(handlers, r,
                              [op |-> "upload", pc |-> "done", status |-> 200,
                               file |-> r.file, docId |-> docId,
                               pages |-> record.pages,
                               chunks |-> record.totalChunks])
    /\ UNCHANGED <<clock, chunkVars, rankVars>>

-----------------------------------------------------------------------------
(* POST /ask.                                                              *)

\* The ids a request can carry: none, or a timestamp.
AskIds == {<<>>} \cup {NumberToString(t) : t \in 0..MaxClock}

\* A faulty variant: the test of the inputs without the documentId.
MissingInputQuestionOnly(question, docId) == question = <<>>

\* !question || !docId
MissingInput(question, docId) == question = <<>> \/ docId = <<>>

\* A faulty variant: a lookup that takes a record with no chunks for none.
FoundWithChunks(map, docId) == docId \in DOMAIN map /\ map[docId].chunks # <<>>

\* documentStore.get(docId) is not undefined
Found(map, docId) == docId \in DOMAIN map

\* topChunks.map(c => c.text).join('\n\n---\n\n').length
Separator == <<NL, NL, "-", "-", "-", NL, NL>>
ContextLength(topChunks) ==
    Len(Join([k \in 1..Len(topChunks) |-> topChunks[k].text], Separator))

\* The handler from the lookup to the call of anthropic.messages.create: what
\* it holds while it awaits the answer, for each order sort can produce.
Retrieve(doc, question) ==
    LET questionVector == simpleEmbedding(question, doc.vocabulary)
    IN  {[questionVector |-> questionVector,
          chunksUsed |-> Len(top),
          contextSize |-> ContextLength(top)] :
            top \in TopChunks(doc.chunks, questionVector)}

\* Retrieve on every record and question of the model, evaluated once.
RetrieveTable ==
    [f \in ParsedFiles, q \in Questions \ {<<>>} |-> Retrieve(RecordTable[f], q)]

RetrieveOf(doc, question) ==
    RetrieveTable[CHOOSE f \in ParsedFiles : RecordTable[f] = doc, question]

\* if (!question || !docId) return res.status(400)
AskMissing(question, docId) ==
    /\ BagCardinality(handlers) < MaxHandlers
    /\ MissingInput(question, docId)
    /\ handlers' = handlers (+) SetToBag({[op |-> "ask", pc |-> "done",
                                           status |-> 400,
                                           question |-> question,
                                           docId |-> docId,
                                           completionCalled |-> FALSE]})
    /\ UNCHANGED <<documentStore, clock, chunkVars, rankVars>>

\* if (!doc) return res.status(404)
AskNotFound(question, docId) ==
    /\ BagCardinality(handlers) < MaxHandlers
    /\ ~MissingInput(question, docId)
    /\ ~Found(documentStore, docId)
    /\ handlers' = handlers (+) SetToBag({[op |-> "ask", pc |-> "done",
                                           status |-> 404,
                                           question |-> question,
                                           docId |-> docId,
                                           completionCalled |-> FALSE]})
    /\ UNCHANGED <<documentStore, clock, chunkVars, rankVars>>

\* The handler up to await anthropic.messages.create(...).
AskRetrieve(question, docId) ==
    /\ BagCardinality(handlers) < MaxHandlers
    /\ ~MissingInput(question, docId)
    /\ Found(documentStore, docId)
    /\ \E held \in RetrieveOf(documentStore[docId], question) :
          handlers' = handlers (+) SetToBag({[op |-> "ask", pc |-> "completing",
                                              question |-> question,
                                              docId |-> docId,
                                              questionVector |-> held.questionVector,
                                              chunksUsed |-> held.chunksUsed,
                                              contextSize |-> held.contextSize,
                                              completionCalled |-> TRUE]})
    /\ UNCHANGED <<documentStore, clock, chunkVars, rankVars>>

\* The completion resolves: res.json({success: true, answer, chunksUsed, ...}).
AskAnswered(r) ==
    /\ r.op = "ask" /\ r.pc = "completing"
    /\ handlers' = Replace(handlers, r,
                       [op |-> "ask", pc |-> "done", status |-> 200,
                        question |-> r.question, docId |-> r.docId,
                        chunksUsed |-> r.chunksUsed,
                        contextSize |-> r.contextSize,
                        completionCalled |-> TRUE])
    /\ UNCHANGED <<documentStore, clock, chunkVars, rankVars>>

\* The completion rejects: the catch block answers 500.
AskFailed(r) ==
    /\ r.op = "ask" /\ r.pc = "completing"
    /\ handlers' = Replace(handlers, r,
                       [op |-> "ask", pc |-> "done", status |-> 500,
                        question |-> r.question, docId |-> r.docId,
                        completionCalled |-> TRUE])
    /\ UNCHANGED <<documentStore, clock, chunkVars, rankVars>>

\* An answered request leaves.
Release(r) ==
    /\ r.pc = "done"
    /\ handlers' = handlers (-) SetToBag({r})
    /\ UNCHANGED <<documentStore, clock, chunkVars, rankVars>>

\* A millisecond passes.
Tick ==
    /\ clock < MaxClock
    /\ clock' = clock + 1
    /\ UNCHANGED <<documentStore, handlers, chunkVars, rankVars>>

-----------------------------------------------------------------------------
(* The server.                                                             *)

ChunkIdle ==
    /\ ckText = <<>> /\ ckSize = 0 /\ ckOverlap = 0 /\ ckParas = <<>>
    /\ ckPos = 0 /\ ckCur = <<>> /\ ckChunks = <<>> /\ ckPc = "idle"

RankIdle ==
    /\ rkChunks = <<>> /\ rkQuery = <<>> /\ rkScored = <<>> /\ rkTop = <<>>
    /\ rkPc = "idle"

Init ==
    /\ documentStore = [k \in {} |-> 0]
    /\ clock = 0
    /\ handlers = EmptyBag
    /\ ChunkIdle
    /\ RankIdle

\* The uploads of the server under concurrent requests.
SmallFiles == Files \ {"long.pdf"}

Next ==
    \/ UploadNoFile
    \/ \E file \in SmallFiles : UploadStart(file)
    \/ \E r \in BagToSet(handlers) : UploadParseError(r)
    \/ \E r \in BagToSet(handlers) : UploadFinish(r)
    \/ \E question \in Questions, docId \in AskIds : AskMissing(question, docId)
    \/ \E question \in Questions, docId \in AskIds : AskNotFound(question, docId)
    \/ \E question \in Questions, docId \in AskIds : AskRetrieve(question, docId)
    \/ \E r \in BagToSet(handlers) : AskAnswered(r)
    \/ \E r \in BagToSet(handlers) : AskFailed(r)
    \/ \E r \in BagToSet(handlers) : Release(r)
    \/ Tick

Spec == Init /\ [][Next]_vars

\* The server taking one request at a time, on every upload of the model.
Idle == handlers = EmptyBag

NextSerial ==
    \/ Idle /\ UploadNoFile
    \/ \E file \in Files : Idle /\ UploadStart(file)
    \/ \E r \in BagToSet(handlers) : UploadParseError(r)
    \/ \E r \in BagToSet(handlers) : UploadFinish(r)
    \/ \E question \in Questions, docId \in AskIds :
          Idle /\ AskMissing(question, docId)
    \/ \E question \in Questions, docId \in AskIds :
          Idle /\ AskNotFound(question, docId)
    \/ \E question \in Questions, docId \in AskIds :
          Idle /\ AskRetrieve(question, docId)
    \/ \E r \in BagToSet(handlers) : AskAnswered(r)
    \/ \E r \in BagToSet(handlers) : AskFailed(r)
    \/ \E r \in BagToSet(handlers) : Release(r)
    \/ Tick

SpecSerial == Init /\ [][NextSerial]_vars

-----------------------------------------------------------------------------
(* chunkText on its own, one step of its loop at a time.                   *)

ChunkAlphabet == {"a", SP, NL}

Texts(maxLen) == UNION {[1..n -> ChunkAlphabet] : n \in 0..maxLen}

InitChunk ==
    /\ ckText \in Texts(MaxTextLen)
    /\ ckSize \in 1..MaxChunkSize
    /\ ckOverlap \in 0..MaxOverlap
    /\ ckParas = SplitParagraphs(ckText)
    /\ ckPos = 1
    /\ ckCur = <<>>
    /\ ckChunks = <<>>
    /\ ckPc = "loop"
    /\ documentStore = [k \in {} |-> 0] /\ clock = 0 /\ handlers = EmptyBag
    /\ RankIdle

ChunkIterate ==
    LET st == LoopBody([chunks |-> ckChunks, currentChunk |-> ckCur],
                       ckParas[ckPos], ckSize, ckOverlap)
    IN  /\ ckChunks' = st.chunks
        /\ ckCur' = st.currentChunk
        /\ ckPos' = ckPos + 1
        /\ UNCHANGED <<ckText, ckSize, ckOverlap, ckParas, ckPc, serverVars, rankVars>>

\* The if branch: close the chunk, seed the next one with the overlap.
ChunkSplit ==
    /\ ckPc = "loop" /\ ckPos <= Len(ckParas)
    /\ MustSplit(ckCur, ckParas[ckPos], ckSize)
    /\ ChunkIterate

\* The else branch: append the paragraph.
ChunkAppend ==
    /\ ckPc = "loop" /\ ckPos <= Len(ckParas)
    /\ ~MustSplit(ckCur, ckParas[ckPos], ckSize)
    /\ ChunkIterate

\* After the loop: push what is left, return chunks.
ChunkReturn ==
    /\ ckPc = "loop" /\ ckPos > Len(ckParas)
    /\ ckChunks' = Flush([chunks |-> ckChunks, currentChunk |-> ckCur])
    /\ ckPc' = "done"
    /\ UNCHANGED <<ckText, ckSize, ckOverlap, ckParas, ckPos, ckCur, serverVars, rankVars>>

NextChunk == ChunkSplit \/ ChunkAppend \/ ChunkReturn

SpecChunk == InitChunk /\ [][NextChunk]_vars

-----------------------------------------------------------------------------
(* The ranking of /ask on its own: score, sort in place, slice.            *)

Vectors(dim) == [1..dim -> 0..MaxCount]

\* The embeddings of a record: every term of the vocabulary is a word of some
\* chunk, and chunk k has id k - 1.
Embedded(n, dim) ==
    {[k \in 1..n |-> [id |-> k - 1, embedding |-> e[k]]] :
        e \in {v \in [1..n -> Vectors(dim)] :
                  \A t \in 1..dim : \E k \in 1..n : v[k][t] > 0}}

InitRank ==
    /\ \E n \in 0..MaxRankChunks, dim \in 0..MaxRankDim :
          /\ rkChunks \in Embedded(n, dim)
          /\ rkQuery \in [1..dim -> 0..MaxQueryCount]
    /\ rkScored = <<>>
    /\ rkTop = <<>>
    /\ rkPc = "score"
    /\ documentStore = [k \in {} |-> 0] /\ clock = 0 /\ handlers = EmptyBag
    /\ ChunkIdle

RankScore ==
    /\ rkPc = "score"
    /\ rkScored' = ScoreChunks(rkChunks, rkQuery)
    /\ rkPc' = "sort"
    /\ UNCHANGED <<rkChunks, rkQuery, rkTop, serverVars, chunkVars>>

\* scoredChunks.sort(...) sorts the array in place.
RankSort ==
    /\ rkPc = "sort"
    /\ rkScored' \in SortOutcomes(rkScored)
    /\ rkPc' = "slice"
    /\ UNCHANGED <<rkChunks, rkQuery, rkTop, serverVars, chunkVars>>

RankSlice ==
    /\ rkPc = "slice"
    /\ rkTop' = SliceTop(rkScored)
    /\ rkPc' = "done"
    /\ UNCHANGED <<rkChunks, rkQuery, rkScored, serverVars, chunkVars>>

NextRank == RankScore \/ RankSort \/ RankSlice

SpecRank == InitRank /\ [][NextRank]_vars

-----------------------------------------------------------------------------
(* What the claims read from a state.                                      *)

HandlerSet == BagToSet(handlers)

\* r is a handler this step has moved to where it stands.
Arrived(r) == CopiesIn(r, handlers') > CopiesIn(r, handlers)

IsIngested(r) == r.op = "upload" /\ r.pc = "done" /\ r.status = 200
IsFailedIngest(r) == r.op = "upload" /\ r.pc = "done" /\ r.status \in {400, 500}

\* (C1) No two answered ingests carry the same document identifier: every
\* ingest is stored under an identifier no other ingest got.
C1_IngestIdsDistinct ==
    \A r1, r2 \in HandlerSet :
        (IsIngested(r1) /\ IsIngested(r2)) =>
            /\ CopiesIn(r1, handlers) = 1
            /\ r1.docId = r2.docId => r1 = r2

\* (C2) A registered record is never replaced, mutated or removed: every
\* identifier of the store stays, with the same record.
C2_RecordsNeverChange ==
    [][\A id \in DOMAIN documentStore :
          /\ id \in DOMAIN documentStore'
          /\ documentStore'[id] = documentStore[id]]_vars

\* (C3, as stated) An ask whose documentId is not a key of the store is
\* answered DocumentNotFound (404), the completion never called.
C3_UnknownIdIsNotFound ==
    \A r \in HandlerSet :
        (r.op = "ask" /\ r.docId \notin DOMAIN documentStore) =>
            r.pc = "done" /\ r.status = 404 /\ ~r.completionCalled

\* (C3, amended) An ask whose documentId is not a key of the store never
\* calls the completion; it is answered DocumentNotFound (404) when both the
\* question and the documentId are present, and MissingInput (400) otherwise.
C3_UnknownIdNeverCompletes ==
    \A r \in HandlerSet :
        (r.op = "ask" /\ r.docId \notin DOMAIN documentStore) =>
            /\ r.pc = "done"
            /\ ~r.completionCalled
            /\ r.status = IF r.question = <<>> \/ r.docId = <<>> THEN 400 ELSE 404

C3_Witness ==
    \E r \in HandlerSet :
        /\ r.op = "ask" /\ r.pc = "done" /\ r.status = 404
        /\ r.question # <<>> /\ r.docId # <<>>
        /\ r.docId \notin DOMAIN documentStore
        /\ DOMAIN documentStore # {}

\* A record of the store is whole: its chunks numbered from 0, each with a
\* trimmed non-empty text and a vector over the vocabulary, and its count.
FullyFormed(record) ==
    /\ DOMAIN record = {"chunks", "vocabulary", "pages", "totalChunks"}
    /\ record.totalChunks = Len(record.chunks)
    /\ \A k \in 1..Len(record.chunks) :
          /\ record.chunks[k].id = k - 1
          /\ record.chunks[k].text # <<>>
          /\ record.chunks[k].text = Trim(record.chunks[k].text)
          /\ Len(record.chunks[k].embedding) = Len(record.vocabulary)

\* (C7) An ingest that fails, with no file or on an extraction error, leaves
\* the store as it was; the store changes only when an ingest is answered
\* with success, and every record a lookup can see is whole.
C7_FailedIngestRegistersNothing ==
    /\ [][(\E r \in BagToSet(handlers') : IsFailedIngest(r) /\ Arrived(r))
              => documentStore' = documentStore]_vars
    /\ [][documentStore' # documentStore
              => \E r \in BagToSet(handlers') : IsIngested(r) /\ Arrived(r)]_vars
    /\ [](\A id \in DOMAIN documentStore : FullyFormed(documentStore[id]))

C7_Witness ==
    /\ \E r \in HandlerSet : IsFailedIngest(r) /\ r.status = 500
    /\ \E r \in HandlerSet : IsFailedIngest(r) /\ r.status = 400
    /\ \E id \in DOMAIN documentStore : documentStore[id].totalChunks > 0

\* The file parses to a text that chunks to zero segments.
ZeroSegments(file) ==
    /\ pdfParse(file).ok
    /\ chunkText(pdfParse(file).text, UploadChunkSize, UploadOverlap) = <<>>

C9_VectorLengths ==
    /\ \A id \in DOMAIN documentStore :
          /\ Len(documentStore[id].vocabulary) <= 500
          /\ \A k \in 1..Len(documentStore[id].chunks) :
                Len(documentStore[id].chunks[k].embedding)
                    = Len(documentStore[id].vocabulary)
    /\ \A r \in HandlerSet :
          (r.op = "ask" /\ r.pc = "completing") =>
              Len(r.questionVector) = Len(documentStore[r.docId].vocabulary)

C9_Witness ==
    \E r \in HandlerSet :
        /\ r.op = "ask" /\ r.pc = "completing"
        /\ Len(documentStore[r.docId].vocabulary) = 500
        /\ Len(documentStore[r.docId].chunks) = 4
        /\ Len(r.questionVector) = 500

Norm2(v) == Dot(v, v)
Scored == rkPc \in {"sort", "slice", "done"}

\* (C4) Against a question vector of norm zero, and for a segment vector of
\* norm zero, the similarity is exactly 0, never NaN.
C4_ZeroNormScoresZero ==
    Scored =>
        \A k \in 1..Len(rkScored) :
            (Norm2(rkQuery) = 0 \/ Norm2(rkScored[k].embedding) = 0) =>
                /\ ~rkScored[k].similarity.nan
                /\ rkScored[k].similarity.num = 0

\* (C5) The segments ask selects are the min(3, n) segments of highest
\* similarity, in descending order of similarity, segments of equal
\* similarity in ascending order of their index.  No similarity is counted
\* as out of order against NaN.
C5_TopThreeDescending ==
    rkPc = "done" =>
        LET selected == {rkTop[i].id : i \in 1..Len(rkTop)}
            sim(id) == (CHOOSE c \in Range(rkScored) : c.id = id).similarity
        IN  /\ Len(rkTop) = Min(3, Len(rkChunks))
            /\ Cardinality(selected) = Len(rkTop)
            /\ \A i, j \in 1..Len(rkTop) :
                  i < j =>
                      /\ ~SimLess(rkTop[i].similarity, rkTop[j].similarity)
                      /\ SimEqual(rkTop[i].similarity, rkTop[j].similarity)
                             => rkTop[i].id < rkTop[j].id
            /\ \A i \in 1..Len(rkTop), c \in Range(rkScored) :
                  c.id \notin selected =>
                      /\ ~SimLess(rkTop[i].similarity, c.similarity)
                      /\ SimEqual(rkTop[i].similarity, c.similarity)
                             => rkTop[i].id < c.id

\* s has p as a contiguous part.
Contains(s, p) ==
    \E a \in 1..(Len(s) - Len(p) + 1) : SubSeq(s, a, a + Len(p) - 1) = p

\* (C6) Every segment the chunker returns, the last one aside, is no longer
\* than targetSize, unless it contains a paragraph (trimmed, as segments
\* are) that is by itself longer than targetSize.
C6_SegmentsWithinTargetSize ==
    ckPc = "done" =>
        \A k \in 1..(Len(ckChunks) - 1) :
            \/ Len(ckChunks[k].text) <= ckSize
            \/ \E i \in 1..Len(ckParas) :
                  /\ Len(ckParas[i]) > ckSize
                  /\ Contains(ckChunks[k].text, Trim(ckParas[i]))

\* The whitespace-delimited words of s, in order.
WhitespaceWords(s) ==
    LET isW(i) == i \in 1..Len(s) /\ ~IsSpace(s[i])
        starts == SortedSeq({i \in 1..Len(s) : isW(i) /\ ~isW(i - 1)}, s)
        ends == SortedSeq({i \in 1..Len(s) : isW(i) /\ ~isW(i + 1)}, s)
    IN  [k \in 1..Len(starts) |-> SubSeq(s, starts[k], ends[k])]

\* (C10) When the chunker closes a segment, the new buffer is the trailing
\* floor(overlapBudget / 5) words of the closed buffer, joined by single
\* spaces, and then the paragraph that triggered the split; when
\* floor(overlapBudget / 5) is 0 no word is carried, and the new buffer holds
\* the paragraph alone (a leading space allowed).
C10_OverlapIsTrailingWords ==
    [][(ckPc = "loop" /\ ckPos' = ckPos + 1 /\ Len(ckChunks') > Len(ckChunks)) =>
          LET para == ckParas[ckPos]
              words == WhitespaceWords(ckCur)
              n == ckOverlap \div 5
              carried == SubSeq(words, Max(Len(words) - n, 0) + 1, Len(words))
          IN  IF n = 0
              THEN ckCur' \in {para, <<SP>> \o para}
              ELSE ckCur' = Join(carried, <<SP>>) \o <<SP>> \o para]_vars

=============================================================================
